---- MODULE Spec2Model ----
(***************************************************************************)
(* GeoGift backend: the Web3 challenge-response authentication service     *)
(* (backend/app/services/web3_auth.py) and the gift-chain progression      *)
(* (backend/app/crud/crud_chain.py, backend/app/api/v1/endpoints/chains.py)*)
(*                                                                         *)
(* Time is the wall clock in seconds.  The Redis store holds the nonce     *)
(* keys and the per-wallet rate-limit counters with their absolute expiry; *)
(* a handler is split at the points where it awaits a Redis or database    *)
(* round trip, which is where another request can interleave.              *)
(***************************************************************************)
EXTENDS Integers, Sequences, FiniteSets, TLC

\* ------------------------------------------------------------------------
\* Bounds of the model
\* ------------------------------------------------------------------------
MaxTime == 450
TickStep == 150
MaxRateTime == 90
RateTick == 30
MaxNonces == 2
MaxChallenges == 6
MaxSteps == 3
MaxClaims == 3
ChainTick == 86400
MaxChainTime == 180000
MaxGifts == 2

\* ------------------------------------------------------------------------
\* Program constants
\* ------------------------------------------------------------------------
NonceTTL == 300
RateWindow == 60
RateLimit == 5
MinChainSteps == 2
MaxChainSteps == 10
DaySeconds == 86400

\* ------------------------------------------------------------------------
\* Addresses, messages, signatures
\* ------------------------------------------------------------------------
WalletIds == {"A", "B"}
Procs == {"p1", "p2"}
SeqProcs == {"p1"}

\* A raw address is the 20-byte account it names and the letter case it is
\* written in; BadAddr is a string that is no Ethereum address.
BadAddr == [id |-> "none", form |-> "invalid"]
RawAddrs == [id : WalletIds, form : {"lower", "checksum"}] \cup {BadAddr}
OneWalletAddrs == {a \in RawAddrs : a.id # "B"}
JunkAddr == [id |-> "junk", form |-> "checksum"]

is_address(a) == a.form \in {"lower", "checksum"}
to_checksum_address(a) == [id |-> a.id, form |-> "checksum"]
lower(a) == [id |-> a.id, form |-> "lower"]

NoAddr == [id |-> "none", form |-> "none"]
NoMsg == [addr |-> NoAddr, nonce |-> 0, ts |-> 0 - 1]
NoSig == [key |-> "none", msg |-> NoMsg]
Malformed == [key |-> "malformed", msg |-> NoMsg]

Callers == {"c1", "c2"}
SeqCallers == {"c1"}
ChainIds == {1}
RequestChainIds == {1, 2}

VARIABLES now, nonces, rate, nextNonce, challenges, tokens,
          winStart, accepted, lastAccept, pc, loc, reply,
          chains, steps, claims, cpc, cloc, creply, cview,
          users, subjects, gifts, greply

authVars == <<now, nonces, rate, nextNonce, challenges, tokens,
              winStart, accepted, lastAccept, pc, loc, reply>>
chainVars == <<chains, steps, claims, cpc, cloc, creply, cview>>
appVars == <<users, subjects, gifts, greply>>
vars == <<authVars, chainVars, appVars>>

CsAddrs == {to_checksum_address(a) : a \in RawAddrs \ {BadAddr}}
NoCounter == [count |-> 0, exp |-> 0]
NoLoc == [addr |-> NoAddr, nonce |-> 0, sig |-> NoSig]
NoReply == [op |-> "none", nonce |-> 0, key |-> "none", res |-> "none"]
Reply(op, nonce, key, res) == [op |-> op, nonce |-> nonce, key |-> key, res |-> res]

validate_wallet_address_coerced(a) ==
    IF is_address(a) THEN to_checksum_address(a) ELSE [id |-> "A", form |-> "checksum"]

\* _validate_wallet_address: the checksummed address, or NoAddr when the
\* handler raises the 400 "Invalid wallet address format".
validate_wallet_address(a) ==
    IF is_address(a) THEN to_checksum_address(a) ELSE NoAddr

\* _create_challenge_message: the text is determined by the address, the
\* nonce and the clock reading taken while it is formatted.
create_challenge_message(wallet_address, nonce) ==
    [addr |-> wallet_address, nonce |-> nonce, ts |-> now]

\* encode_defunct + sign_message by the holder of a key (done off-system).
Sign(key, msg) == [key |-> key, msg |-> msg]

recover_message_claimed(message, sig) == [id |-> message.addr.id, form |-> "checksum"]

\* Account.recover_message: the signer's address when the digest is the one
\* that was signed, an unrelated address otherwise.
recover_message(message, sig) ==
    IF sig.msg = message THEN [id |-> sig.key, form |-> "checksum"] ELSE JunkAddr

address_mismatch_never(recovered_address, wallet_address) ==
    lower(wallet_address) # lower(wallet_address)

\* recovered_address.lower() != wallet_address.lower()
address_mismatch(recovered_address, wallet_address) ==
    lower(recovered_address) # lower(wallet_address)

key_live_inclusive(exp, t) == t <= exp

\* A Redis key with expiry exp is there at time t.
key_live(exp, t) == t < exp

nonce_exists_any_wallet(wallet_address, nonce) ==
    \E e \in nonces : e.nonce = nonce /\ key_live(e.exp, now)

\* Redis EXISTS on auth_nonce:{wallet}:{nonce}
nonce_exists(wallet_address, nonce) ==
    \E e \in nonces : e.addr = wallet_address /\ e.nonce = nonce /\ key_live(e.exp, now)

cleanup_nonce_skipped(wallet_address, nonce) == nonces

\* Redis DELETE on auth_nonce:{wallet}:{nonce}
cleanup_nonce(wallet_address, nonce) ==
    {e \in nonces : ~(e.addr = wallet_address /\ e.nonce = nonce)}

\* Redis SETEX on auth_nonce:{wallet}:{nonce}
store_nonce(wallet_address, nonce) ==
    {e \in nonces : ~(e.addr = wallet_address /\ e.nonce = nonce)}
       \cup {[addr |-> wallet_address, nonce |-> nonce, exp |-> now + NonceTTL]}

\* Redis GET on auth_rate_limit:{wallet}; 0 stands for None
rate_get(wallet_address) ==
    IF rate[wallet_address].count > 0 /\ key_live(rate[wallet_address].exp, now)
    THEN rate[wallet_address].count ELSE 0

over_limit_strict(current_count) == current_count # 0 /\ current_count > RateLimit

\* if current_count and int(current_count) >= 5
over_limit(current_count) == current_count # 0 /\ current_count >= RateLimit

track_challenge_request_fixed_window(wallet_address) ==
    [count |-> rate_get(wallet_address) + 1,
     exp |-> IF rate_get(wallet_address) = 0 THEN now + RateWindow ELSE rate[wallet_address].exp]

\* pipe.incr(rate_limit_key); pipe.expire(rate_limit_key, 60)
track_challenge_request(wallet_address) ==
    [count |-> rate_get(wallet_address) + 1, exp |-> now + RateWindow]

\* ------------------------------------------------------------------------
\* Users and gifts (routes/auth.py, crud_gift.py, endpoints/gifts.py)
\* ------------------------------------------------------------------------
GiftIds == 1..MaxGifts
EscrowIds == 1..MaxGifts
GiftStatus == {"PENDING", "CLAIMED", "EXPIRED"}
NoGift == [status |-> "none", sender |-> NoAddr, recipient_address |-> NoAddr, escrow_id |-> 0]
NoGiftReply == [op |-> "none", status |-> 0, gift_id |-> 0]

RequestGiftIds == 1..(MaxGifts + 1)
ClaimLocations == {"inside_radius", "outside_radius"}

InitAppVars ==
    /\ users = {}
    /\ subjects = {}
    /\ gifts = [g \in GiftIds |-> NoGift]
    /\ greply = NoGiftReply

InitAuth ==
    /\ now = 0
    /\ nonces = {}
    /\ rate = [a \in CsAddrs |-> NoCounter]
    /\ nextNonce = 1
    /\ challenges = [n \in 1..(MaxChallenges + 2) |-> NoMsg]
    /\ tokens = [n \in 1..(MaxChallenges + 2) |-> 0]
    /\ winStart = [a \in CsAddrs |-> 0]
    /\ accepted = [a \in CsAddrs |-> 0]
    /\ lastAccept = [a \in CsAddrs |-> 0 - RateWindow]
    /\ pc = [p \in Procs |-> "idle"]
    /\ loc = [p \in Procs |-> NoLoc]
    /\ reply = NoReply


\* The clock advances by d; Redis drops the keys whose expiry has been
\* reached, the clients drop the challenges that have expired.
Tick(d, maxTime) ==
    /\ now + d <= maxTime
    /\ now' = now + d
    /\ nonces' = {e \in nonces : key_live(e.exp, now')}
    /\ rate' = [a \in CsAddrs |->
                 IF rate[a].count > 0 /\ key_live(rate[a].exp, now') THEN rate[a] ELSE NoCounter]
    /\ challenges' = [n \in DOMAIN challenges |->
                 IF challenges[n] # NoMsg /\ now' < challenges[n].ts + NonceTTL
                 THEN challenges[n] ELSE NoMsg]
    /\ winStart' = [a \in CsAddrs |-> IF now' < lastAccept[a] + RateWindow THEN winStart[a] ELSE 0]
    /\ accepted' = [a \in CsAddrs |-> IF now' < lastAccept[a] + RateWindow THEN accepted[a] ELSE 0]
    /\ lastAccept' = [a \in CsAddrs |->
                 IF now' < lastAccept[a] + RateWindow THEN lastAccept[a] ELSE 0 - RateWindow]
    /\ UNCHANGED <<nextNonce, tokens, pc, loc, reply>>
    /\ UNCHANGED chainVars
    /\ UNCHANGED appVars

\* generate_challenge up to the reply of _check_rate_limit's GET
GenCheck(p, a) ==
    /\ pc[p] = "idle"
    /\ LET w == validate_wallet_address(a) IN
       IF w = NoAddr
       THEN /\ reply' = Reply("generate", 0, "none", "InvalidAddress")
            /\ UNCHANGED <<pc, loc>>
       ELSE IF over_limit(rate_get(w))
       THEN /\ reply' = Reply("generate", 0, "none", "RateLimitExceeded")
            /\ UNCHANGED <<pc, loc>>
       ELSE /\ loc' = [loc EXCEPT ![p] = [NoLoc EXCEPT !.addr = w]]
            /\ pc' = [pc EXCEPT ![p] = "gen_checked"]
            /\ reply' = reply
    /\ UNCHANGED <<now, nonces, rate, nextNonce, challenges, tokens,
                   winStart, accepted, lastAccept>>
    /\ UNCHANGED chainVars
    /\ UNCHANGED appVars

\* _generate_nonce, _create_challenge_message and the SETEX of the nonce key
GenStore(p) ==
    /\ pc[p] = "gen_checked"
    /\ LET w == loc[p].addr
           nonce == nextNonce
           message == create_challenge_message(w, nonce) IN
       /\ nonces' = store_nonce(w, nonce)
       /\ challenges' = [challenges EXCEPT ![nonce] = message]
       /\ loc' = [loc EXCEPT ![p].nonce = nonce]
    /\ nextNonce' = nextNonce + 1
    /\ pc' = [pc EXCEPT ![p] = "gen_stored"]
    /\ UNCHANGED <<now, rate, tokens, winStart, accepted, lastAccept, reply>>
    /\ UNCHANGED chainVars
    /\ UNCHANGED appVars

\* _track_challenge_request (INCR and EXPIRE in one MULTI/EXEC) and the reply
GenTrack(p) ==
    /\ pc[p] = "gen_stored"
    /\ LET w == loc[p].addr IN
       /\ rate' = [rate EXCEPT ![w] = track_challenge_request(w)]
       /\ IF now >= lastAccept[w] + RateWindow
          THEN /\ winStart' = [winStart EXCEPT ![w] = now]
               /\ accepted' = [accepted EXCEPT ![w] = 1]
          ELSE /\ winStart' = winStart
               /\ accepted' = [accepted EXCEPT ![w] = @ + 1]
       /\ lastAccept' = [lastAccept EXCEPT ![w] = now]
    /\ reply' = Reply("generate", loc[p].nonce, "none", "challenge")
    /\ loc' = [loc EXCEPT ![p] = NoLoc]
    /\ pc' = [pc EXCEPT ![p] = "idle"]
    /\ UNCHANGED <<now, nonces, nextNonce, challenges, tokens>>
    /\ UNCHANGED chainVars
    /\ UNCHANGED appVars

\* verify_signature up to the reply of _verify_nonce's EXISTS
VerCheck(p, a, nonce, sig) ==
    /\ pc[p] = "idle"
    /\ LET w == validate_wallet_address(a) IN
       IF w = NoAddr
       THEN /\ reply' = Reply("verify", nonce, "none", "InvalidAddress")
            /\ UNCHANGED <<pc, loc>>
       ELSE IF ~nonce_exists(w, nonce)
       THEN /\ reply' = Reply("verify", nonce, "none", "InvalidNonce")
            /\ UNCHANGED <<pc, loc>>
       ELSE /\ loc' = [loc EXCEPT ![p] = [addr |-> w, nonce |-> nonce, sig |-> sig]]
            /\ pc' = [pc EXCEPT ![p] = "ver_checked"]
            /\ reply' = reply
    /\ UNCHANGED <<now, nonces, rate, nextNonce, challenges, tokens,
                   winStart, accepted, lastAccept>>
    /\ UNCHANGED chainVars
    /\ UNCHANGED appVars

\* verify_signature from the message reconstruction to the reply
VerFinish(p) ==
    /\ pc[p] = "ver_checked"
    /\ LET w == loc[p].addr
           nonce == loc[p].nonce
           signature == loc[p].sig
           message == create_challenge_message(w, nonce)
           recovered_address == recover_message(message, signature) IN
       IF signature = Malformed
       THEN /\ reply' = Reply("verify", nonce, signature.key, "InvalidSignature")
            /\ UNCHANGED <<nonces, tokens>>
       ELSE IF address_mismatch(recovered_address, w)
       THEN /\ reply' = Reply("verify", nonce, signature.key, "AddressMismatch")
            /\ UNCHANGED <<nonces, tokens>>
       ELSE /\ nonces' = cleanup_nonce(w, nonce)
            /\ tokens' = [tokens EXCEPT ![nonce] = @ + 1]
            /\ reply' = Reply("verify", nonce, signature.key, "token")
    /\ loc' = [loc EXCEPT ![p] = NoLoc]
    /\ pc' = [pc EXCEPT ![p] = "idle"]
    /\ UNCHANGED <<now, rate, nextNonce, challenges, winStart, accepted, lastAccept>>
    /\ UNCHANGED chainVars
    /\ UNCHANGED appVars

AuthErrors == {"InvalidAddress", "InvalidNonce", "AddressMismatch"}

normalize_exception_reraised(err) == err

\* verify_signature's handlers: "except HTTPException: raise" passes the
\* authentication errors on, "except Exception" answers every other error
\* with the 401 "Signature verification failed".
normalize_exception(err) == IF err \in AuthErrors THEN err ELSE "InvalidSignature"

\* verify_signature during which the Redis round trip of _verify_nonce raises
\* (the address has been validated before Redis is reached).
VerRedisError(p, a, nonce) ==
    /\ pc[p] = "idle"
    /\ LET w == validate_wallet_address(a) IN
       IF w = NoAddr
       THEN reply' = Reply("verify", nonce, "none", normalize_exception("InvalidAddress"))
       ELSE reply' = Reply("verify", nonce, "none", normalize_exception("ConnectionError"))
    /\ UNCHANGED <<now, nonces, rate, nextNonce, challenges, tokens,
                   winStart, accepted, lastAccept, pc, loc>>
    /\ UNCHANGED chainVars
    /\ UNCHANGED appVars

\* _ensure_user_exists: SELECT by the exact string, INSERT when no row has
\* it; wallet_address is a unique column, so a string is stored once.
ensure_user_exists(wallet_address) == users \cup {wallet_address}

\* POST /verify, the whole route: Web3AuthService.verify_signature, then
\* _ensure_user_exists with the address as the request spelled it; the token
\* subject is the checksummed address.
route_verify_signature(a, nonce, sig) ==
    /\ \A p \in Procs : pc[p] = "idle"
    /\ LET w == validate_wallet_address(a)
           message == create_challenge_message(w, nonce)
           recovered_address == recover_message(message, sig) IN
       IF w = NoAddr
       THEN /\ reply' = Reply("verify", nonce, "none", "InvalidAddress")
            /\ UNCHANGED <<nonces, tokens, users, subjects>>
       ELSE IF ~nonce_exists(w, nonce)
       THEN /\ reply' = Reply("verify", nonce, "none", "InvalidNonce")
            /\ UNCHANGED <<nonces, tokens, users, subjects>>
       ELSE IF sig = Malformed
       THEN /\ reply' = Reply("verify", nonce, sig.key, "InvalidSignature")
            /\ UNCHANGED <<nonces, tokens, users, subjects>>
       ELSE IF address_mismatch(recovered_address, w)
       THEN /\ reply' = Reply("verify", nonce, sig.key, "AddressMismatch")
            /\ UNCHANGED <<nonces, tokens, users, subjects>>
       ELSE /\ nonces' = cleanup_nonce(w, nonce)
            /\ tokens' = [tokens EXCEPT ![nonce] = @ + 1]
            /\ subjects' = subjects \cup {w}
            /\ users' = ensure_user_exists(a)
            /\ reply' = Reply("verify", nonce, sig.key, "token")
    /\ UNCHANGED <<now, rate, nextNonce, challenges, winStart, accepted, lastAccept, pc, loc>>
    /\ UNCHANGED <<gifts, greply>>
    /\ UNCHANGED chainVars

\* GET /me with a token whose subject is sub: get_current_user.
get_current_user(sub) ==
    /\ sub \in subjects
    /\ users' = ensure_user_exists(sub)
    /\ reply' = Reply("me", 0, sub.id, "user")
    /\ UNCHANGED <<now, nonces, rate, nextNonce, challenges, tokens,
                   winStart, accepted, lastAccept, pc, loc>>
    /\ UNCHANGED <<subjects, gifts, greply>>
    /\ UNCHANGED chainVars

\* The id the next Gift row gets.
next_gift_id == CHOOSE g \in GiftIds : gifts[g] = NoGift /\ \A h \in 1..(g - 1) : gifts[h] # NoGift

\* POST /gifts with the token of subject sub: create_gift.  Every exception
\* raised inside the try block (the 404 for a missing sender, the unique
\* violation on escrow_id) is answered 500; a new row has the column
\* default status PENDING.
create_gift(sub, recipient_address, escrow_id) ==
    /\ \E g \in GiftIds : gifts[g] = NoGift
    /\ IF sub \notin subjects
       THEN /\ greply' = [op |-> "create_gift", status |-> 401, gift_id |-> 0]
            /\ gifts' = gifts
       ELSE IF sub \notin users
       THEN /\ greply' = [op |-> "create_gift", status |-> 500, gift_id |-> 0]
            /\ gifts' = gifts
       ELSE IF \E g \in GiftIds : gifts[g] # NoGift /\ gifts[g].escrow_id = escrow_id
       THEN /\ greply' = [op |-> "create_gift", status |-> 500, gift_id |-> 0]
            /\ gifts' = gifts
       ELSE /\ gifts' = [gifts EXCEPT ![next_gift_id] =
                  [status |-> "PENDING", sender |-> sub,
                   recipient_address |-> recipient_address, escrow_id |-> escrow_id]]
            /\ greply' = [op |-> "create_gift", status |-> 201, gift_id |-> next_gift_id]
    /\ UNCHANGED <<users, subjects>>
    /\ UNCHANGED authVars
    /\ UNCHANGED chainVars

\* CRUDGift.update_status: the gift, when there is one, gets the status
\* passed in; status 0 stands for the None returned when there is none.
update_status(gift_id, status) ==
    /\ IF gift_id \in GiftIds /\ gifts[gift_id] # NoGift
       THEN /\ gifts' = [gifts EXCEPT ![gift_id].status = status]
            /\ greply' = [op |-> "update_status", status |-> 200, gift_id |-> gift_id]
       ELSE /\ gifts' = gifts
            /\ greply' = [op |-> "update_status", status |-> 0, gift_id |-> gift_id]
    /\ UNCHANGED <<users, subjects>>
    /\ UNCHANGED authVars
    /\ UNCHANGED chainVars

\* POST /gifts/{gift_id}/claim: claim_gift logs the attempt and raises 400.
claim_gift(gift_id, user_location) ==
    /\ greply' = [op |-> "claim_gift", status |-> 400, gift_id |-> gift_id]
    /\ UNCHANGED <<users, subjects, gifts>>
    /\ UNCHANGED authVars
    /\ UNCHANGED chainVars

\* DELETE /gifts/{gift_id}: cancel_gift logs and answers 200.
cancel_gift(gift_id) ==
    /\ greply' = [op |-> "cancel_gift", status |-> 200, gift_id |-> gift_id]
    /\ UNCHANGED <<users, subjects, gifts>>
    /\ UNCHANGED authVars
    /\ UNCHANGED chainVars

\* The signatures a client can submit for a nonce: garbage, or a signature by
\* one of the keys over the challenge it was sent, or by the wallet's own key
\* over the template filled with the clock reading at submission.
SigInputs(a, nonce) ==
    {Malformed}
      \cup (IF challenges[nonce] # NoMsg
            THEN {Sign(k, challenges[nonce]) : k \in WalletIds} ELSE {})
      \cup (IF is_address(a)
            THEN {Sign(a.id, create_challenge_message(to_checksum_address(a), nonce))} ELSE {})

GenInFlight == Cardinality({p \in Procs : pc[p] = "gen_checked"})

\* Authentication, requests served one at a time.
NextAuthSeq ==
    \/ Tick(TickStep, MaxTime)
    \/ \E p \in SeqProcs, a \in RawAddrs :
          nextNonce + GenInFlight <= MaxNonces /\ GenCheck(p, a)
    \/ \E p \in SeqProcs : GenStore(p)
    \/ \E p \in SeqProcs : GenTrack(p)
    \/ \E p \in SeqProcs, a \in RawAddrs, n \in 1..MaxNonces :
          \E sig \in SigInputs(a, n) : VerCheck(p, a, n, sig)
    \/ \E p \in SeqProcs : VerFinish(p)

\* Authentication, requests served one at a time, Redis failing at times.
NextAuthFault ==
    \/ NextAuthSeq
    \/ \E p \in SeqProcs, a \in RawAddrs, n \in 1..MaxNonces : VerRedisError(p, a, n)

\* Authentication of one wallet, requests served concurrently.
NextAuth ==
    \/ Tick(TickStep, MaxTime)
    \/ \E p \in Procs, a \in OneWalletAddrs :
          nextNonce + GenInFlight <= MaxNonces /\ GenCheck(p, a)
    \/ \E p \in Procs : GenStore(p)
    \/ \E p \in Procs : GenTrack(p)
    \/ \E p \in Procs, a \in OneWalletAddrs, n \in 1..MaxNonces :
          \E sig \in SigInputs(a, n) : VerCheck(p, a, n, sig)
    \/ \E p \in Procs : VerFinish(p)

\* Challenge issuance for one wallet, requests served one at a time.
NextRateSeq ==
    \/ Tick(RateTick, MaxRateTime)
    \/ \E p \in SeqProcs, a \in OneWalletAddrs :
          nextNonce + GenInFlight <= MaxChallenges /\ GenCheck(p, a)
    \/ \E p \in SeqProcs : GenStore(p)
    \/ \E p \in SeqProcs : GenTrack(p)

\* Challenge issuance for one wallet, requests served concurrently.
NextRate ==
    \/ Tick(RateTick, MaxRateTime)
    \/ \E p \in Procs, a \in OneWalletAddrs :
          nextNonce + GenInFlight <= MaxChallenges /\ GenCheck(p, a)
    \/ \E p \in Procs : GenStore(p)
    \/ \E p \in Procs : GenTrack(p)


\* ------------------------------------------------------------------------
\* Gift chains (crud_chain.py, endpoints/chains.py)
\* ------------------------------------------------------------------------
Null == 0 - 1
NoChain == [total_steps |-> 0, current_step |-> 0, is_completed |-> FALSE,
            is_expired |-> FALSE, expiry_date |-> Null, completed_at |-> Null,
            giver_address |-> NoAddr, blockchain_chain_id |-> Null, transaction_hash |-> Null]
NoStep == [exists |-> FALSE, is_completed |-> FALSE, completed_at |-> Null]
NoRequest == [chain_id |-> 0, step_index |-> 0, was_successful |-> FALSE, current_step |-> 0]
NoChainReply == [status |-> 0, claim_id |-> 0]
NoChainView == [status |-> 0, current_step |-> 0, is_completed |-> FALSE,
                is_expired |-> FALSE, expiry_date |-> Null]
StepIndexes == 0..MaxSteps

\* The step_index lists a client can post: 0..n-1 in order, one that is out
\* of order and one that is too long.
StepLists == {[i \in 1..n |-> i - 1] : n \in 1..MaxSteps}
                \cup {<<0, 2, 1>>, [i \in 1..(MaxChainSteps + 1) |-> i - 1]}

\* The address a caller submits as claimer_address.
ClaimerOf(q) == IF q = "c1" THEN [id |-> "A", form |-> "checksum"]
                            ELSE [id |-> "B", form |-> "lower"]

\* The wallet whose token creates the chains.
Creator == ClaimerOf("c1")

\* The (blockchain_chain_id, transaction_hash) pairs a client reports.
BlockchainData == {<<7, 7>>}

\* ChainCreate.validate_steps
validate_steps(v) ==
    /\ ~(Len(v) < MinChainSteps)
    /\ ~(Len(v) > MaxChainSteps)
    /\ \A i \in 1..Len(v) : v[i] = i - 1

\* chain.current_step = step_index + 1
new_current_step_incremented(chain_id, step_index) == chains[chain_id].current_step + 1

new_current_step(chain_id, step_index) == step_index + 1

\* if chain.current_step >= chain.total_steps
chain_completed_strict(current_step, total_steps) == current_step > total_steps

chain_completed(current_step, total_steps) == current_step >= total_steps

step_found_always(chain_id, step_index) == TRUE

\* step = step_result.scalar_one_or_none(); if not step: return False
step_found(chain_id, step_index) == steps[chain_id][step_index].exists

new_is_completed_recomputed(is_completed, completed) == completed

\* if chain.current_step >= chain.total_steps: chain.is_completed = True
new_is_completed(is_completed, completed) == IF completed THEN TRUE ELSE is_completed

claim_row_at_current_step(q) ==
    [chain_id |-> cloc[q].chain_id,
     step_index |-> cloc[q].current_step,
     claimer_address |-> lower(ClaimerOf(q)),
     was_successful |-> cloc[q].was_successful,
     error_message |-> IF cloc[q].was_successful THEN "none" ELSE "failed"]

\* ChainClaim(...) in create_claim_attempt
claim_row(q) ==
    [chain_id |-> cloc[q].chain_id,
     step_index |-> cloc[q].step_index,
     claimer_address |-> lower(ClaimerOf(q)),
     was_successful |-> cloc[q].was_successful,
     error_message |-> IF cloc[q].was_successful THEN "none" ELSE "failed"]

add_claim_replacing(row) ==
    IF \E k \in 1..Len(claims) : claims[k].step_index = row.step_index
    THEN [k \in 1..Len(claims) |->
             IF claims[k].step_index = row.step_index THEN row ELSE claims[k]]
    ELSE Append(claims, row)

\* db.add(claim); await db.commit() in create_claim_attempt: an INSERT
add_claim(row) == Append(claims, row)

chain_found_unloaded(chain_id) == chain_id \in ChainIds

\* chain = await crud_chain.get(db=db, id=chain_id); if not chain: 404
chain_found(chain_id) == chain_id \in ChainIds /\ chains[chain_id] # NoChain

InitChainVars ==
    /\ chains = [c \in ChainIds |-> NoChain]
    /\ steps = [c \in ChainIds |-> [i \in StepIndexes |-> NoStep]]
    /\ claims = <<>>
    /\ cpc = [q \in Callers |-> "idle"]
    /\ cloc = [q \in Callers |-> NoRequest]
    /\ creply = NoChainReply
    /\ cview = NoChainView

\* create_chain_with_steps called with its declared parameters on a
\* ChainCreate body (the body is validated when it is built)
CreateChain(v, expiry_days) ==
    /\ \E c \in ChainIds : chains[c] = NoChain
    /\ LET c == CHOOSE c \in ChainIds : chains[c] = NoChain IN
       IF ~validate_steps(v)
       THEN /\ creply' = [status |-> 422, claim_id |-> 0]
            /\ UNCHANGED <<chains, steps>>
       ELSE /\ chains' = [chains EXCEPT ![c] =
                  [total_steps |-> Len(v), current_step |-> 0, is_completed |-> FALSE,
                   is_expired |-> FALSE, expiry_date |-> now + expiry_days * DaySeconds,
                   completed_at |-> Null, giver_address |-> lower(Creator),
                   blockchain_chain_id |-> Null, transaction_hash |-> Null]]
            /\ steps' = [steps EXCEPT ![c] = [i \in StepIndexes |->
                  IF \E k \in 1..Len(v) : v[k] = i
                  THEN [exists |-> TRUE, is_completed |-> FALSE, completed_at |-> Null]
                  ELSE NoStep]]
            /\ creply' = [status |-> 201, claim_id |-> 0]
    /\ UNCHANGED <<claims, cpc, cloc>>
    /\ UNCHANGED cview
    /\ UNCHANGED authVars
    /\ UNCHANGED appVars

\* The keyword parameters create_chain_with_steps declares, and the keyword
\* arguments the create_chain endpoint passes to it.
create_chain_with_steps_params == {"db", "chain_data", "giver_address"}
create_chain_call_args == {"db", "chain_data", "creator_id", "giver_address"}

\* A call binds when every keyword it passes is a declared parameter;
\* otherwise Python raises TypeError before the body runs.
call_binds(args, params) == args \subseteq params

\* POST /chains/ with the token of subject sub: create_chain.  Every
\* exception raised inside the handler's try block, the 404 for a missing
\* user included, is answered 400.
create_chain(sub, v, expiry_days) ==
    /\ \E c \in ChainIds : chains[c] = NoChain
    /\ LET c == CHOOSE c \in ChainIds : chains[c] = NoChain IN
       IF sub \notin subjects
       THEN /\ creply' = [status |-> 401, claim_id |-> 0]
            /\ UNCHANGED <<chains, steps>>
       ELSE IF ~validate_steps(v)
       THEN /\ creply' = [status |-> 422, claim_id |-> 0]
            /\ UNCHANGED <<chains, steps>>
       ELSE IF sub \notin users
       THEN /\ creply' = [status |-> 400, claim_id |-> 0]
            /\ UNCHANGED <<chains, steps>>
       ELSE IF ~call_binds(create_chain_call_args, create_chain_with_steps_params)
       THEN /\ creply' = [status |-> 400, claim_id |-> 0]
            /\ UNCHANGED <<chains, steps>>
       ELSE /\ chains' = [chains EXCEPT ![c] =
                  [total_steps |-> Len(v), current_step |-> 0, is_completed |-> FALSE,
                   is_expired |-> FALSE, expiry_date |-> now + expiry_days * DaySeconds,
                   completed_at |-> Null, giver_address |-> lower(sub),
                   blockchain_chain_id |-> Null, transaction_hash |-> Null]]
            /\ steps' = [steps EXCEPT ![c] = [i \in StepIndexes |->
                  IF \E k \in 1..Len(v) : v[k] = i
                  THEN [exists |-> TRUE, is_completed |-> FALSE, completed_at |-> Null]
                  ELSE NoStep]]
            /\ creply' = [status |-> 201, claim_id |-> 0]
    /\ UNCHANGED <<claims, cpc, cloc>>
    /\ UNCHANGED cview
    /\ UNCHANGED authVars
    /\ UNCHANGED appVars

\* POST /{chain_id}/claims arrives with its body
Submit(q, chain_id, step_index, was_successful) ==
    /\ cpc[q] = "idle"
    /\ cloc' = [cloc EXCEPT ![q] = [chain_id |-> chain_id, step_index |-> step_index,
                                    was_successful |-> was_successful, current_step |-> 0]]
    /\ cpc' = [cpc EXCEPT ![q] = "submitted"]
    /\ UNCHANGED <<chains, steps, claims, creply>>
    /\ UNCHANGED cview
    /\ UNCHANGED authVars
    /\ UNCHANGED appVars

\* record_claim_attempt: crud_chain.get and the 404; the loaded chain stays
\* in the request's session as it was read.
ClaimGet(q) ==
    /\ cpc[q] = "submitted"
    /\ IF ~chain_found(cloc[q].chain_id)
       THEN /\ creply' = [status |-> 404, claim_id |-> 0]
            /\ cpc' = [cpc EXCEPT ![q] = "idle"]
            /\ cloc' = [cloc EXCEPT ![q] = NoRequest]
       ELSE /\ cloc' = [cloc EXCEPT ![q].current_step = chains[cloc[q].chain_id].current_step]
            /\ cpc' = [cpc EXCEPT ![q] = "loaded"]
            /\ creply' = creply
    /\ UNCHANGED <<chains, steps, claims>>
    /\ UNCHANGED cview
    /\ UNCHANGED authVars
    /\ UNCHANGED appVars

\* create_claim_attempt: the row is added and committed; an unsuccessful
\* claim is answered right away.
ClaimCreate(q) ==
    /\ cpc[q] = "loaded"
    /\ claims' = add_claim(claim_row(q))
    /\ IF cloc[q].was_successful
       THEN /\ cpc' = [cpc EXCEPT ![q] = "claimed"]
            /\ UNCHANGED <<cloc, creply>>
       ELSE /\ cpc' = [cpc EXCEPT ![q] = "idle"]
            /\ cloc' = [cloc EXCEPT ![q] = NoRequest]
            /\ creply' = [status |-> 200, claim_id |-> Len(claims) + 1]
    /\ UNCHANGED <<chains, steps>>
    /\ UNCHANGED cview
    /\ UNCHANGED authVars
    /\ UNCHANGED appVars

\* mark_step_completed: the SELECT of the step; without a step it returns
\* False, which record_claim_attempt ignores.
MarkSelect(q) ==
    /\ cpc[q] = "claimed"
    /\ IF ~step_found(cloc[q].chain_id, cloc[q].step_index)
       THEN /\ cpc' = [cpc EXCEPT ![q] = "idle"]
            /\ cloc' = [cloc EXCEPT ![q] = NoRequest]
            /\ creply' = [status |-> 200, claim_id |-> Len(claims)]
       ELSE /\ cpc' = [cpc EXCEPT ![q] = "marking"]
            /\ UNCHANGED <<cloc, creply>>
    /\ UNCHANGED <<chains, steps, claims>>
    /\ UNCHANGED cview
    /\ UNCHANGED authVars
    /\ UNCHANGED appVars

\* mark_step_completed: the assignments and the commit.  The UPDATE of the
\* chain row carries the columns whose new value differs from the value the
\* session loaded.
MarkCommit(q) ==
    /\ cpc[q] = "marking"
    /\ LET c == cloc[q].chain_id
           step_index == cloc[q].step_index
           current_step == new_current_step(c, step_index)
           completed == chain_completed(current_step, chains[c].total_steps) IN
       /\ steps' = [steps EXCEPT ![c][step_index] =
                      [exists |-> TRUE, is_completed |-> TRUE, completed_at |-> now]]
       /\ chains' = [chains EXCEPT
                      ![c].current_step = IF current_step # cloc[q].current_step
                                          THEN current_step ELSE @,
                      ![c].is_completed = new_is_completed(@, completed),
                      ![c].completed_at = IF completed THEN now ELSE @]
    /\ cpc' = [cpc EXCEPT ![q] = "idle"]
    /\ cloc' = [cloc EXCEPT ![q] = NoRequest]
    /\ creply' = [status |-> 200, claim_id |-> Len(claims)]
    /\ UNCHANGED claims
    /\ UNCHANGED cview
    /\ UNCHANGED authVars
    /\ UNCHANGED appVars

\* PUT /{chain_id}/blockchain: update_chain_blockchain_data and
\* update_blockchain_data.  The commit writes the two assigned columns.
update_chain_blockchain_data(current_user_address, chain_id, data) ==
    /\ IF chain_id \notin ChainIds \/ chains[chain_id] = NoChain
       THEN /\ creply' = [status |-> 404, claim_id |-> 0]
            /\ chains' = chains
       ELSE IF lower(chains[chain_id].giver_address) # lower(current_user_address)
       THEN /\ creply' = [status |-> 403, claim_id |-> 0]
            /\ chains' = chains
       ELSE /\ chains' = [chains EXCEPT ![chain_id].blockchain_chain_id = data[1],
                                        ![chain_id].transaction_hash = data[2]]
            /\ creply' = [status |-> 200, claim_id |-> 0]
    /\ UNCHANGED <<steps, claims, cpc, cloc>>
    /\ UNCHANGED cview
    /\ UNCHANGED authVars
    /\ UNCHANGED appVars

\* GET /{chain_id}: get_chain answers 404, or a ChainResponse filled from the
\* columns of the row that get_chain_with_steps selects.
get_chain(chain_id) ==
    /\ IF chain_id \notin ChainIds \/ chains[chain_id] = NoChain
       THEN cview' = [NoChainView EXCEPT !.status = 404]
       ELSE cview' = [status |-> 200,
                      current_step |-> chains[chain_id].current_step,
                      is_completed |-> chains[chain_id].is_completed,
                      is_expired |-> chains[chain_id].is_expired,
                      expiry_date |-> chains[chain_id].expiry_date]
    /\ UNCHANGED <<chains, steps, claims, cpc, cloc, creply>>
    /\ UNCHANGED authVars
    /\ UNCHANGED appVars

Init == InitAuth /\ InitChainVars /\ InitAppVars

AllCallersIdle == \A q \in Callers : cpc[q] = "idle"

\* Chains, one claim request at a time.
NextChainSeq ==
    \/ Tick(ChainTick, MaxChainTime)
    \/ \E v \in StepLists : CreateChain(v, 1)
    \/ \E q \in SeqCallers, c \in RequestChainIds, i \in StepIndexes, ok \in BOOLEAN :
          Len(claims) < MaxClaims /\ Submit(q, c, i, ok)
    \/ \E q \in SeqCallers : ClaimGet(q)
    \/ \E q \in SeqCallers : ClaimCreate(q)
    \/ \E q \in SeqCallers : MarkSelect(q)
    \/ \E q \in SeqCallers : MarkCommit(q)

\* Chains, claim requests one at a time, with blockchain-data updates; no
\* operation of these reads the clock's progress.
NextChainOps ==
    \/ \E v \in StepLists : CreateChain(v, 1)
    \/ \E q \in SeqCallers, c \in RequestChainIds, i \in StepIndexes, ok \in BOOLEAN :
          Len(claims) < MaxClaims /\ Submit(q, c, i, ok)
    \/ \E q \in SeqCallers : ClaimGet(q)
    \/ \E q \in SeqCallers : ClaimCreate(q)
    \/ \E q \in SeqCallers : MarkSelect(q)
    \/ \E q \in SeqCallers : MarkCommit(q)
    \/ \E q \in Callers, c \in RequestChainIds, data \in BlockchainData :
          update_chain_blockchain_data(ClaimerOf(q), c, data)

\* Two callers have posted a successful claim for the step the chain is at;
\* the chain got there by claims made in order.
InitRace ==
    /\ InitAuth
    /\ InitAppVars
    /\ \E n \in MinChainSteps..MaxSteps : \E i \in 0..(n - 1) :
         /\ chains = [c \in ChainIds |->
               [total_steps |-> n, current_step |-> i, is_completed |-> FALSE,
                is_expired |-> FALSE, expiry_date |-> DaySeconds, completed_at |-> Null,
                giver_address |-> lower(Creator),
                blockchain_chain_id |-> Null, transaction_hash |-> Null]]
         /\ steps = [c \in ChainIds |-> [k \in StepIndexes |->
               IF k < i THEN [exists |-> TRUE, is_completed |-> TRUE, completed_at |-> 0]
               ELSE IF k < n THEN [exists |-> TRUE, is_completed |-> FALSE, completed_at |-> Null]
               ELSE NoStep]]
         /\ claims = [k \in 1..i |->
               [chain_id |-> 1, step_index |-> k - 1, claimer_address |-> lower(ClaimerOf("c1")),
                was_successful |-> TRUE, error_message |-> "none"]]
         /\ cloc = [q \in Callers |-> [chain_id |-> 1, step_index |-> i,
                                       was_successful |-> TRUE, current_step |-> 0]]
         /\ creply = IF i = 0 THEN [status |-> 201, claim_id |-> 0]
                              ELSE [status |-> 200, claim_id |-> i]
    /\ cpc = [q \in Callers |-> "submitted"]
    /\ cview = NoChainView

\* The two claim requests, served concurrently.
NextRace ==
    \/ Tick(ChainTick, MaxChainTime)
    \/ \E q \in Callers : ClaimGet(q)
    \/ \E q \in Callers : ClaimCreate(q)
    \/ \E q \in Callers : MarkSelect(q)
    \/ \E q \in Callers : MarkCommit(q)

\* Chains, one claim request at a time, and reads of a chain.
NextChainRead ==
    \/ Tick(ChainTick, MaxChainTime)
    \/ \E v \in StepLists : CreateChain(v, 1)
    \/ \E q \in SeqCallers, c \in RequestChainIds, i \in StepIndexes, ok \in BOOLEAN :
          Len(claims) < MaxClaims /\ Submit(q, c, i, ok)
    \/ \E q \in SeqCallers : ClaimGet(q)
    \/ \E q \in SeqCallers : ClaimCreate(q)
    \/ \E q \in SeqCallers : MarkSelect(q)
    \/ \E q \in SeqCallers : MarkCommit(q)
    \/ \E c \in RequestChainIds : AllCallersIdle /\ get_chain(c)

SpecRace == InitRace /\ [][NextRace]_vars
SpecChainRead == Init /\ [][NextChainRead]_vars

SpecAuthSeq == Init /\ [][NextAuthSeq]_vars
SpecAuth == Init /\ [][NextAuth]_vars
SpecAuthFault == Init /\ [][NextAuthFault]_vars
SpecRateSeq == Init /\ [][NextRateSeq]_vars
SpecRate == Init /\ [][NextRate]_vars
SpecChainSeq == Init /\ [][NextChainSeq]_vars
SpecChainOps == Init /\ [][NextChainOps]_vars

\* One wallet: challenges, the /verify and /me routes and chain creation,
\* requests served one at a time.
NextUsers ==
    \/ \E p \in SeqProcs, a \in OneWalletAddrs :
          nextNonce + GenInFlight <= MaxNonces /\ GenCheck(p, a)
    \/ \E p \in SeqProcs : GenStore(p)
    \/ \E p \in SeqProcs : GenTrack(p)
    \/ \E a \in OneWalletAddrs, n \in 1..MaxNonces :
          \E sig \in SigInputs(a, n) : route_verify_signature(a, n, sig)
    \/ \E sub \in CsAddrs : get_current_user(sub)
    \/ \E sub \in CsAddrs, v \in StepLists : create_chain(sub, v, 1)

SpecUsers == Init /\ [][NextUsers]_vars

\* Wallet A has obtained one challenge and authenticated with it, spelling
\* its address as a.
Authenticated(a) ==
    LET w == to_checksum_address(a) IN
    /\ now = 0
    /\ nonces = {}
    /\ rate = [x \in CsAddrs |-> IF x = w THEN [count |-> 1, exp |-> RateWindow] ELSE NoCounter]
    /\ nextNonce = 2
    /\ challenges = [n \in 1..(MaxChallenges + 2) |->
                       IF n = 1 THEN [addr |-> w, nonce |-> 1, ts |-> 0] ELSE NoMsg]
    /\ tokens = [n \in 1..(MaxChallenges + 2) |-> IF n = 1 THEN 1 ELSE 0]
    /\ winStart = [x \in CsAddrs |-> 0]
    /\ accepted = [x \in CsAddrs |-> IF x = w THEN 1 ELSE 0]
    /\ lastAccept = [x \in CsAddrs |-> IF x = w THEN 0 ELSE 0 - RateWindow]
    /\ pc = [p \in Procs |-> "idle"]
    /\ loc = [p \in Procs |-> NoLoc]
    /\ reply = Reply("verify", 1, w.id, "token")
    /\ users = {a}
    /\ subjects = {w}

InitGift ==
    /\ \E a \in OneWalletAddrs \ {BadAddr} : Authenticated(a)
    /\ InitChainVars
    /\ gifts = [g \in GiftIds |-> NoGift]
    /\ greply = NoGiftReply

\* Gifts: /me and the gift operations, one at a time.
NextGift ==
    \/ \E sub \in CsAddrs : get_current_user(sub)
    \/ \E sub \in CsAddrs, r \in CsAddrs, e \in EscrowIds : create_gift(sub, lower(r), e)
    \/ \E g \in RequestGiftIds, st \in GiftStatus : update_status(g, st)
    \/ \E g \in RequestGiftIds, l \in ClaimLocations : claim_gift(g, l)
    \/ \E g \in RequestGiftIds : cancel_gift(g)

SpecGift == InitGift /\ [][NextGift]_vars

\* ------------------------------------------------------------------------
\* Properties
\* ------------------------------------------------------------------------

\* The challenge of nonce n is still within its 300 s and has not been used.
HistLive(w, n) ==
    /\ challenges[n] # NoMsg
    /\ challenges[n].addr = w
    /\ now < challenges[n].ts + NonceTTL
    /\ tokens[n] = 0

\* Process p's step is a verify_signature call for (a, n), whatever its
\* signature: a call that stops at the nonce check never looks at the
\* signature, and a call that gets past it keeps the signature in loc.
VerCall(p, a, n) == VerCheck(p, a, n, loc'[p].sig)

\* C1: a verify_signature call whose signature was made by the wallet's key
\* over the exact message generate_challenge returned, submitted while that
\* challenge is less than 300 s old, returns a token.
C1_IssuedMessageVerifies ==
    [][\A p \in Procs :
         (/\ VerFinish(p)
          /\ challenges[loc[p].nonce] # NoMsg
          /\ challenges[loc[p].nonce].addr = loc[p].addr
          /\ loc[p].sig = Sign(loc[p].addr.id, challenges[loc[p].nonce]))
         => reply'.res = "token"]_vars

\* C2: with requests served one at a time, a nonce yields at most one token,
\* and every verify_signature call made for a nonce after a call for it has
\* succeeded fails with InvalidNonce, whatever the signature.
C2_NonceSingleUse ==
    [][/\ \A n \in DOMAIN tokens : tokens'[n] <= 1
       /\ \A p \in Procs, a \in RawAddrs, n \in 1..MaxNonces :
            (tokens[n] > 0 /\ is_address(a) /\ VerCall(p, a, n))
            => /\ reply' = Reply("verify", n, "none", "InvalidNonce")
               /\ pc'[p] = "idle"
               /\ tokens' = tokens]_vars

C2_Witness ==
    \E n \in 1..MaxNonces :
       tokens[n] = 1 /\ reply = Reply("verify", n, "none", "InvalidNonce")

\* C3: under any interleaving of verify_signature calls, at most one token
\* is issued per nonce.
C3_OneTokenPerNonce == \A n \in DOMAIN tokens : tokens[n] <= 1

\* C4: with requests served one at a time, a generate_challenge call for a
\* wallet is admitted while fewer than 5 calls have been accepted in the
\* 60 s window opened by the first of them, a further call in that window is
\* rejected with RateLimitExceeded, a call made once the counter's TTL has
\* lapsed is admitted again, and an admitted call returns a challenge.
C4_RateLimitWindow ==
    [][/\ \A p \in Procs, a \in RawAddrs :
            (is_address(a) /\ GenCheck(p, a)) =>
              LET w == to_checksum_address(a) IN
              /\ (accepted[w] < RateLimit /\ (accepted[w] = 0 \/ now < winStart[w] + RateWindow))
                   => pc'[p] = "gen_checked"
              /\ (accepted[w] >= RateLimit /\ now < winStart[w] + RateWindow)
                   => (pc'[p] = "idle" /\ reply' = Reply("generate", 0, "none", "RateLimitExceeded"))
              /\ (now >= lastAccept[w] + RateWindow) => pc'[p] = "gen_checked"
       /\ \A p \in Procs : GenTrack(p) => reply'.res = "challenge"]_vars

C4_Witness ==
    \E w \in CsAddrs :
       /\ accepted[w] = RateLimit
       /\ now < winStart[w] + RateWindow
       /\ reply = Reply("generate", 0, "none", "RateLimitExceeded")

\* C5: under any interleaving of generate_challenge calls for a wallet, at
\* most 5 calls succeed during the life of one rate-limit counter.
C5_AtMostFivePerCounter == \A w \in CsAddrs : accepted[w] <= RateLimit

\* C6: a verify_signature call for a (wallet, nonce) whose challenge is 300 s
\* old or older, was never stored for that wallet, or has been deleted fails
\* with InvalidNonce, and a pair that is not in the store never comes back.
C6_NonceOnlyWhileLive ==
    [][/\ \A p \in Procs, a \in RawAddrs, n \in 1..MaxNonces :
            (is_address(a) /\ ~HistLive(to_checksum_address(a), n) /\ VerCall(p, a, n))
            => /\ reply' = Reply("verify", n, "none", "InvalidNonce")
               /\ pc'[p] = "idle"
       /\ \A w \in CsAddrs, n \in 1..MaxNonces :
            (n < nextNonce /\ ~nonce_exists(w, n)) => ~(nonce_exists(w, n))']_vars

C6_Witness ==
    \E n \in 1..MaxNonces :
       /\ n < nextNonce
       /\ tokens[n] = 0
       /\ challenges[n] = NoMsg
       /\ reply = Reply("verify", n, "none", "InvalidNonce")

\* C7: a verify_signature call with a live nonce and a signature made by a
\* key other than the claimed wallet's fails with the address-mismatch error;
\* no token is issued and the nonce stays.
C7_ForeignKeyRejected ==
    [][\A p \in Procs :
         (/\ VerFinish(p)
          /\ loc[p].sig # Malformed
          /\ loc[p].sig.key # loc[p].addr.id)
         => /\ reply' = Reply("verify", loc[p].nonce, loc[p].sig.key, "AddressMismatch")
            /\ tokens' = tokens
            /\ nonces' = nonces]_vars

C7_Witness ==
    /\ reply.res = "AddressMismatch"
    /\ reply.key \in WalletIds
    /\ \E e \in nonces : e.nonce = reply.nonce /\ e.addr.id # reply.key /\ key_live(e.exp, now)

\* C8: a successful claim whose step index is not the chain's current_step is
\* rejected (the answer is not the 200 of an applied claim) and leaves the
\* chain row and every step row as they were.
C8_OutOfOrderRejected ==
    [][\A q \in Callers :
         (/\ MarkCommit(q)
          /\ cloc[q].step_index # chains[cloc[q].chain_id].current_step)
         => /\ chains' = chains
            /\ steps' = steps
            /\ creply'.status # 200]_vars

IsSuccessful(row) == row.was_successful
SuccessfulClaims == SelectSeq(claims, IsSuccessful)

\* C9: when the successful claims recorded for a chain are those of steps
\* 0, 1, ..., k-1 in this order, current_step is k, exactly the steps below k
\* are completed, and is_completed and the completion timestamp are set
\* exactly when k is the number of steps.
C9_InOrderCompletion ==
    \A c \in ChainIds :
       LET k == Len(SuccessfulClaims) IN
       (/\ AllCallersIdle
        /\ chains[c] # NoChain
        /\ k <= chains[c].total_steps
        /\ \A j \in 1..k : SuccessfulClaims[j].step_index = j - 1)
       => /\ chains[c].current_step = k
          /\ chains[c].is_completed = (k = chains[c].total_steps)
          /\ (chains[c].completed_at # Null) = (k = chains[c].total_steps)
          /\ \A i \in StepIndexes : steps[c][i].is_completed = (i < k)

C9_Witness ==
    \E c \in ChainIds :
       /\ AllCallersIdle
       /\ chains[c].total_steps >= MinChainSteps
       /\ Len(SuccessfulClaims) = chains[c].total_steps
       /\ \A j \in 1..Len(SuccessfulClaims) : SuccessfulClaims[j].step_index = j - 1
       /\ chains[c].is_completed
       /\ chains[c].current_step = chains[c].total_steps
       /\ chains[c].completed_at # Null

C11_CompletedIffAllSteps ==
    \A c \in ChainIds :
       chains[c] # NoChain =>
          (chains[c].is_completed <=> chains[c].current_step = chains[c].total_steps)

\* C12: every chain has 0 <= current_step <= total_steps.
C12_CurrentStepInRange ==
    \A c \in ChainIds :
       chains[c] # NoChain =>
          (0 <= chains[c].current_step /\ chains[c].current_step <= chains[c].total_steps)

\* A successful claim for an index that names no step of the chain has been
\* recorded and answered, and the chain stands at its last step.
C12_Witness ==
    \E c \in ChainIds :
       /\ AllCallersIdle
       /\ chains[c] # NoChain
       /\ chains[c].current_step = chains[c].total_steps
       /\ Len(claims) > 0
       /\ claims[Len(claims)].chain_id = c
       /\ claims[Len(claims)].was_successful
       /\ claims[Len(claims)].step_index >= chains[c].total_steps

\* C13: the completed steps of a chain are exactly the indices below its
\* current_step (steps complete in order, none skipped).
C13_StepsCompleteInOrder ==
    \A c \in ChainIds, i \in StepIndexes :
       chains[c] # NoChain => (steps[c][i].is_completed <=> i < chains[c].current_step)

\* C14: no step takes a chain's is_completed, or its is_expired, from true
\* back to false.
C14_FlagsNeverRevert ==
    [][\A c \in ChainIds :
         /\ chains[c].is_completed => chains'[c].is_completed
         /\ chains[c].is_expired => chains'[c].is_expired]_vars

\* A completed chain has had a later claim applied to it and its blockchain
\* data updated.
C14_Witness ==
    \E c \in ChainIds :
       /\ chains[c].is_completed
       /\ chains[c].current_step < chains[c].total_steps
       /\ chains[c].blockchain_chain_id # Null
       /\ AllCallersIdle

\* The chain a request names exists.
ChainExists(chain_id) == chain_id \in ChainIds /\ chains[chain_id] # NoChain

C16_UnappliedCompletionReported ==
    [][\A q \in Callers :
         (MarkSelect(q) /\ ~step_found(cloc[q].chain_id, cloc[q].step_index))
         => creply' # [status |-> 200, claim_id |-> Len(claims)]]_vars

\* C17: chain creation by an authenticated user with a user record accepts
\* a step list exactly when it has 2 to 10 entries whose i-th step_index is
\* i: such a list is answered 201 and persisted with total_steps = N, any
\* other list is rejected and nothing is persisted.
C17_CreationAcceptsValidLists ==
    [][\A sub \in CsAddrs, v \in StepLists :
         (create_chain(sub, v, 1) /\ sub \in subjects /\ sub \in users)
         => IF Len(v) >= MinChainSteps /\ Len(v) <= MaxChainSteps
               /\ (\A i \in 1..Len(v) : v[i] = i - 1)
            THEN /\ creply'.status = 201
                 /\ \E c \in ChainIds :
                       /\ chains[c] = NoChain
                       /\ chains'[c].total_steps = Len(v)
                       /\ \A i \in StepIndexes : steps'[c][i].exists <=> i < Len(v)
            ELSE /\ creply'.status # 201
                 /\ chains' = chains
                 /\ steps' = steps]_vars

\* C20: once a wallet has authenticated, exactly one User row exists for it.
C20_OneUserPerWallet ==
    \A sub \in subjects : Cardinality({u \in users : u.id = sub.id}) = 1

\* C18: a gift that is CLAIMED or EXPIRED keeps its status.
C18_StatusMonotonic ==
    [][\A g \in GiftIds :
         gifts[g].status \in {"CLAIMED", "EXPIRED"} => gifts'[g].status = gifts[g].status]_vars

\* C19: claim_gift from inside the radius on a PENDING gift succeeds and
\* sets the status to CLAIMED; claim_gift on a CLAIMED gift is rejected and
\* leaves it CLAIMED.
C19_ClaimOnce ==
    [][\A g \in GiftIds :
         /\ (claim_gift(g, "inside_radius") /\ gifts[g].status = "PENDING")
               => (gifts'[g].status = "CLAIMED" /\ greply'.status = 200)
         /\ \A l \in ClaimLocations :
               (claim_gift(g, l) /\ gifts[g].status = "CLAIMED")
               => (gifts'[g].status = "CLAIMED" /\ greply'.status # 200)]_vars

\* C21: a successful claim applied to a chain that is already completed, or
\* whose expiry date has passed, or whose is_expired flag is set, changes no
\* column of the chain row and no step row.
C21_CompleteOnlyWhileActive ==
    [][\A q \in Callers :
         (/\ MarkCommit(q)
          /\ \/ chains[cloc[q].chain_id].is_completed
             \/ now > chains[cloc[q].chain_id].expiry_date
             \/ chains[cloc[q].chain_id].is_expired)
         => /\ chains' = chains
            /\ steps' = steps]_vars

\* C22: no step lowers a chain's current_step.
C22_CurrentStepNeverDecreases ==
    [][\A c \in ChainIds :
         chains[c] # NoChain => chains'[c].current_step >= chains[c].current_step]_vars

\* C23: a read of a chain that is not completed and whose expiry date lies
\* before the current time reports it as expired.
C23_ExpiryReportedOnRead ==
    [][\A c \in ChainIds :
         (/\ get_chain(c)
          /\ ChainExists(c)
          /\ ~chains[c].is_completed
          /\ chains[c].expiry_date < now)
         => cview'.is_expired]_vars

\* C24: a generate_challenge or verify_signature request whose address is
\* no Ethereum address is answered InvalidAddress and ends there: no nonce
\* is stored or deleted, no rate-limit counter changes.
C24_InvalidAddressTouchesNothing ==
    [][\A p \in Procs, a \in RawAddrs :
         (~is_address(a) /\ (GenCheck(p, a) \/ \E n \in 1..MaxNonces : VerCall(p, a, n)))
         => /\ reply'.res = "InvalidAddress"
            /\ pc'[p] = "idle"
            /\ nonces' = nonces
            /\ rate' = rate
            /\ tokens' = tokens]_vars

\* A request with an invalid address has been answered while a nonce and a
\* rate-limit counter are stored.
C24_Witness ==
    /\ reply.res = "InvalidAddress"
    /\ nonces # {}
    /\ \E w \in CsAddrs : rate[w].count > 0

\* C25: a verify_signature call in which the nonce lookup or the signature
\* recovery raises is answered with the 401 of a failed verification; no
\* answer carries an internal error, and a token is issued only with the
\* answer that returns it.
C25_ExceptionsNormalized ==
    [][/\ \A p \in Procs :
            /\ (VerFinish(p) /\ loc[p].sig = Malformed)
                  => (reply'.res = "InvalidSignature" /\ tokens' = tokens)
            /\ \A a \in RawAddrs, n \in 1..MaxNonces :
                  (is_address(a) /\ VerRedisError(p, a, n))
                  => (reply'.res = "InvalidSignature" /\ tokens' = tokens)
       /\ reply'.res \in AuthErrors \cup {"InvalidSignature", "RateLimitExceeded",
                                           "challenge", "token", "none"}
       /\ tokens' # tokens => reply'.res = "token"]_vars

\* The nonce lookup of a call for a live nonce has failed and been answered.
C25_Witness ==
    /\ reply.res = "InvalidSignature"
    /\ reply.key = "none"
    /\ \E e \in nonces : e.nonce = reply.nonce /\ key_live(e.exp, now)

\* C27: a verify_signature call that gets past the nonce check and then
\* fails (the signature cannot be decoded, or was made by another key or over
\* another message) leaves the nonce store as it was; a nonce leaves the
\* store only when its TTL ends or when the call that used it succeeds.
C27_FailedVerifyKeepsNonce ==
    [][/\ \A p \in Procs :
            (/\ VerFinish(p)
             /\ \/ loc[p].sig = Malformed
                \/ loc[p].sig.key # loc[p].addr.id
                \/ loc[p].sig.msg # create_challenge_message(loc[p].addr, loc[p].nonce))
            => /\ nonces' = nonces
               /\ tokens' = tokens
               /\ reply'.res \in {"InvalidSignature", "AddressMismatch"}
       /\ \A e \in nonces :
            (e \notin nonces' /\ key_live(e.exp, now'))
            => \E p \in Procs :
                  /\ VerFinish(p)
                  /\ loc[p].addr = e.addr /\ loc[p].nonce = e.nonce
                  /\ reply'.res = "token"]_vars

\* A call with an undecodable signature has failed and its nonce is live.
C27_Witness ==
    /\ reply.res = "InvalidSignature"
    /\ reply.key = "malformed"
    /\ \E e \in nonces : e.nonce = reply.nonce /\ key_live(e.exp, now)
    /\ tokens[reply.nonce] = 0

\* C28: a verify_signature call for a wallet with a nonce that is stored for
\* another wallet fails with InvalidNonce and leaves the nonce store as it
\* was; a live nonce leaves the store only through a verification for the
\* wallet it is stored for.
C28_NonceBoundToWallet ==
    [][/\ \A p \in Procs, a \in RawAddrs, n \in 1..MaxNonces :
            (/\ is_address(a)
             /\ \E e \in nonces : e.nonce = n /\ e.addr # to_checksum_address(a)
             /\ VerCall(p, a, n))
            => /\ reply' = Reply("verify", n, "none", "InvalidNonce")
               /\ pc'[p] = "idle"
               /\ nonces' = nonces
               /\ tokens' = tokens
       /\ \A e \in nonces :
            (e \notin nonces' /\ key_live(e.exp, now'))
            => \E p \in Procs : VerFinish(p) /\ loc[p].addr = e.addr]_vars

\* A nonce is live for one wallet and a verification with it for another
\* wallet has been answered InvalidNonce.
C28_Witness ==
    /\ \A p \in Procs : pc[p] = "idle"
    /\ reply.op = "verify" /\ reply.res = "InvalidNonce"
    /\ \E e \in nonces : e.nonce = reply.nonce /\ key_live(e.exp, now)

\* C29: with requests served one at a time, a generate_challenge call made
\* for a wallet that has had 5 calls accepted, less than 60 s after the last
\* accepted one, is rejected with RateLimitExceeded and changes neither the
\* nonce store nor any counter or its expiry; a call made 60 s or more after
\* the last accepted one is admitted.
C29_RejectionLeavesStateAlone ==
    [][\A p \in Procs, a \in RawAddrs :
         (is_address(a) /\ GenCheck(p, a)) =>
           LET w == to_checksum_address(a) IN
           /\ (accepted[w] >= RateLimit /\ now < lastAccept[w] + RateWindow)
                 => /\ reply' = Reply("generate", 0, "none", "RateLimitExceeded")
                    /\ pc'[p] = "idle"
                    /\ nonces' = nonces
                    /\ rate' = rate
                    /\ nextNonce' = nextNonce
           /\ (now >= lastAccept[w] + RateWindow) => pc'[p] = "gen_checked"]_vars

\* A wallet that was being rejected is admitted again.
C29_Witness ==
    /\ \E p \in Procs : pc[p] = "gen_checked"
    /\ reply.res = "RateLimitExceeded"
    /\ nextNonce > RateLimit
    /\ now >= RateWindow

\* C26: no claim, step-completion or chain-update step removes or changes
\* a row of the claim log: the log after a step is the log before it,
\* possibly with rows appended.
C26_ClaimLogAppendOnly ==
    [][/\ Len(claims') >= Len(claims)
       /\ SubSeq(claims', 1, Len(claims)) = claims]_vars

\* Two claims for the same step are both in the log, the step has been
\* completed and the chain's blockchain data updated.
C26_Witness ==
    /\ AllCallersIdle
    /\ \E i, j \in 1..Len(claims) :
          /\ i < j
          /\ claims[i].step_index = claims[j].step_index
          /\ claims[i].was_successful # claims[j].was_successful
    /\ \E c \in ChainIds :
          /\ chains[c].blockchain_chain_id # Null
          /\ chains[c].current_step > 0

\* C30: a claim request naming a chain that does not exist is answered 404
\* and ends there; the claim log, the chains and the steps stay as they were.
C30_MissingChainPersistsNothing ==
    [][\A q \in Callers :
         (ClaimGet(q) /\ ~ChainExists(cloc[q].chain_id))
         => /\ creply' = [status |-> 404, claim_id |-> 0]
            /\ cpc'[q] = "idle"
            /\ claims' = claims
            /\ chains' = chains
            /\ steps' = steps]_vars

\* A claim for a missing chain has been answered 404 while the store holds
\* a chain with a recorded claim.
C30_Witness ==
    /\ AllCallersIdle
    /\ creply = [status |-> 404, claim_id |-> 0]
    /\ Len(claims) > 0
    /\ \E c \in ChainIds : chains[c] # NoChain

TypeOK ==
    /\ now \in Nat
    /\ \A p \in Procs : pc[p] \in {"idle", "gen_checked", "gen_stored", "ver_checked"}
    /\ \A q \in Callers : cpc[q] \in {"idle", "submitted", "loaded", "claimed", "marking"}
    /\ Len(claims) <= MaxClaims + 1
====
